---- MODULE Spec2Model ----
(***************************************************************************)
(* Model of the x-fact data preparation code:                              *)
(*   - XFactEvidenceProcessor (label vocabulary, train/dev/test scans),    *)
(*   - the two feature encoders,                                           *)
(*   - the year-filter script eda.py.                                      *)
(* Python strings are sequences of code points, so that str.lower(),       *)
(* str.strip(), slicing and the ordering used by sorted() are computed.    *)
(***************************************************************************)
EXTENDS Integers, Sequences, FiniteSets, TLC

VARIABLES sources, num_evidences, use_metadata, label_sets, label_count,
          ret, seen,
          enc_in, enc_out,
          pc, test_all_tsv, tsv, df, bi, dev_csv, json_files

vars == <<sources, num_evidences, use_metadata, label_sets, label_count,
          ret, seen, enc_in, enc_out, pc, test_all_tsv, tsv, df, bi, dev_csv,
          json_files>>

procVars == <<sources, num_evidences, use_metadata, label_sets, label_count,
              ret, seen>>
encVars == <<enc_in, enc_out>>
edaVars == <<pc, test_all_tsv, tsv, df, bi, dev_csv, json_files>>

(***************************************************************************)
(* Bounds of the model.                                                    *)
(***************************************************************************)
\* data rows (rows after the header) of a file
MaxRows == 2
\* largest configured num_evidences
MaxEv == 2
\* cap on each count of label_count (one label of one source)
MaxCount == 2
\* examples handed to an encoder in one call
MaxEx == 2
\* rows of the table read by the year-filter script
MaxDfRows == 2

(***************************************************************************)
(* Strings.                                                                *)
(***************************************************************************)
Str_true == <<116,114,117,101>>
Str_True == <<84,114,117,101>>
Str_false == <<102,97,108,115,101>>
Str_label == <<108,97,98,101,108>>

(***************************************************************************)
(* str.lower() of CPython 3.11 (Unicode 14.0).  LowerTable lists the code  *)
(* points above ASCII with a one-code-point lower case as <<first, last,   *)
(* step, delta>>: every step-th code point from first to last maps to       *)
(* itself plus delta.  CasedTable and CaseIgnorableTable list, as <<first,  *)
(* last>>, the code points the Final_Sigma test of lower() takes for cased  *)
(* (and not case-ignorable) and for case-ignorable.                         *)
(***************************************************************************)
LowerTable ==
  << <<192,214,1,32>>, <<216,222,1,32>>, <<256,302,2,1>>, <<306,310,2,1>>, <<313,327,2,1>>,
     <<330,374,2,1>>, <<376,376,1,-121>>, <<377,381,2,1>>, <<385,385,1,210>>, <<386,388,2,1>>,
     <<390,390,1,206>>, <<391,391,1,1>>, <<393,394,1,205>>, <<395,395,1,1>>, <<398,398,1,79>>,
     <<399,399,1,202>>, <<400,400,1,203>>, <<401,401,1,1>>, <<403,403,1,205>>, <<404,404,1,207>>,
     <<406,406,1,211>>, <<407,407,1,209>>, <<408,408,1,1>>, <<412,412,1,211>>, <<413,413,1,213>>,
     <<415,415,1,214>>, <<416,420,2,1>>, <<422,422,1,218>>, <<423,423,1,1>>, <<425,425,1,218>>,
     <<428,428,1,1>>, <<430,430,1,218>>, <<431,431,1,1>>, <<433,434,1,217>>, <<435,437,2,1>>,
     <<439,439,1,219>>, <<440,440,1,1>>, <<444,444,1,1>>, <<452,452,1,2>>, <<453,453,1,1>>,
     <<455,455,1,2>>, <<456,456,1,1>>, <<458,458,1,2>>, <<459,475,2,1>>, <<478,494,2,1>>,
     <<497,497,1,2>>, <<498,500,2,1>>, <<502,502,1,-97>>, <<503,503,1,-56>>, <<504,542,2,1>>,
     <<544,544,1,-130>>, <<546,562,2,1>>, <<570,570,1,10795>>, <<571,571,1,1>>, <<573,573,1,-163>>,
     <<574,574,1,10792>>, <<577,577,1,1>>, <<579,579,1,-195>>, <<580,580,1,69>>, <<581,581,1,71>>,
     <<582,590,2,1>>, <<880,882,2,1>>, <<886,886,1,1>>, <<895,895,1,116>>, <<902,902,1,38>>,
     <<904,906,1,37>>, <<908,908,1,64>>, <<910,911,1,63>>, <<913,929,1,32>>, <<932,939,1,32>>,
     <<975,975,1,8>>, <<984,1006,2,1>>, <<1012,1012,1,-60>>, <<1015,1015,1,1>>, <<1017,1017,1,-7>>,
     <<1018,1018,1,1>>, <<1021,1023,1,-130>>, <<1024,1039,1,80>>, <<1040,1071,1,32>>, <<1120,1152,2,1>>,
     <<1162,1214,2,1>>, <<1216,1216,1,15>>, <<1217,1229,2,1>>, <<1232,1326,2,1>>, <<1329,1366,1,48>>,
     <<4256,4293,1,7264>>, <<4295,4295,1,7264>>, <<4301,4301,1,7264>>, <<5024,5103,1,38864>>, <<5104,5109,1,8>>,
     <<7312,7354,1,-3008>>, <<7357,7359,1,-3008>>, <<7680,7828,2,1>>, <<7838,7838,1,-7615>>, <<7840,7934,2,1>>,
     <<7944,7951,1,-8>>, <<7960,7965,1,-8>>, <<7976,7983,1,-8>>, <<7992,7999,1,-8>>, <<8008,8013,1,-8>>,
     <<8025,8031,2,-8>>, <<8040,8047,1,-8>>, <<8072,8079,1,-8>>, <<8088,8095,1,-8>>, <<8104,8111,1,-8>>,
     <<8120,8121,1,-8>>, <<8122,8123,1,-74>>, <<8124,8124,1,-9>>, <<8136,8139,1,-86>>, <<8140,8140,1,-9>>,
     <<8152,8153,1,-8>>, <<8154,8155,1,-100>>, <<8168,8169,1,-8>>, <<8170,8171,1,-112>>, <<8172,8172,1,-7>>,
     <<8184,8185,1,-128>>, <<8186,8187,1,-126>>, <<8188,8188,1,-9>>, <<8486,8486,1,-7517>>, <<8490,8490,1,-8383>>,
     <<8491,8491,1,-8262>>, <<8498,8498,1,28>>, <<8544,8559,1,16>>, <<8579,8579,1,1>>, <<9398,9423,1,26>>,
     <<11264,11311,1,48>>, <<11360,11360,1,1>>, <<11362,11362,1,-10743>>, <<11363,11363,1,-3814>>, <<11364,11364,1,-10727>>,
     <<11367,11371,2,1>>, <<11373,11373,1,-10780>>, <<11374,11374,1,-10749>>, <<11375,11375,1,-10783>>, <<11376,11376,1,-10782>>,
     <<11378,11378,1,1>>, <<11381,11381,1,1>>, <<11390,11391,1,-10815>>, <<11392,11490,2,1>>, <<11499,11501,2,1>>,
     <<11506,11506,1,1>>, <<42560,42604,2,1>>, <<42624,42650,2,1>>, <<42786,42798,2,1>>, <<42802,42862,2,1>>,
     <<42873,42875,2,1>>, <<42877,42877,1,-35332>>, <<42878,42886,2,1>>, <<42891,42891,1,1>>, <<42893,42893,1,-42280>>,
     <<42896,42898,2,1>>, <<42902,42920,2,1>>, <<42922,42922,1,-42308>>, <<42923,42923,1,-42319>>, <<42924,42924,1,-42315>>,
     <<42925,42925,1,-42305>>, <<42926,42926,1,-42308>>, <<42928,42928,1,-42258>>, <<42929,42929,1,-42282>>, <<42930,42930,1,-42261>>,
     <<42931,42931,1,928>>, <<42932,42946,2,1>>, <<42948,42948,1,-48>>, <<42949,42949,1,-42307>>, <<42950,42950,1,-35384>>,
     <<42951,42953,2,1>>, <<42960,42960,1,1>>, <<42966,42968,2,1>>, <<42997,42997,1,1>>, <<65313,65338,1,32>>,
     <<66560,66599,1,40>>, <<66736,66771,1,40>>, <<66928,66938,1,39>>, <<66940,66954,1,39>>, <<66956,66962,1,39>>,
     <<66964,66965,1,39>>, <<68736,68786,1,64>>, <<71840,71871,1,32>>, <<93760,93791,1,32>>, <<125184,125217,1,34>> >>

CasedTable ==
  << <<65,90>>, <<97,122>>, <<170,170>>, <<181,181>>, <<186,186>>, <<192,214>>, <<216,246>>,
     <<248,442>>, <<444,447>>, <<452,659>>, <<661,687>>, <<880,883>>, <<886,887>>, <<891,893>>,
     <<895,895>>, <<902,902>>, <<904,906>>, <<908,908>>, <<910,929>>, <<931,1013>>, <<1015,1153>>,
     <<1162,1327>>, <<1329,1366>>, <<1376,1416>>, <<4256,4293>>, <<4295,4295>>, <<4301,4301>>, <<4304,4346>>,
     <<4349,4351>>, <<5024,5109>>, <<5112,5117>>, <<7296,7304>>, <<7312,7354>>, <<7357,7359>>, <<7424,7467>>,
     <<7531,7543>>, <<7545,7578>>, <<7680,7957>>, <<7960,7965>>, <<7968,8005>>, <<8008,8013>>, <<8016,8023>>,
     <<8025,8025>>, <<8027,8027>>, <<8029,8029>>, <<8031,8061>>, <<8064,8116>>, <<8118,8124>>, <<8126,8126>>,
     <<8130,8132>>, <<8134,8140>>, <<8144,8147>>, <<8150,8155>>, <<8160,8172>>, <<8178,8180>>, <<8182,8188>>,
     <<8450,8450>>, <<8455,8455>>, <<8458,8467>>, <<8469,8469>>, <<8473,8477>>, <<8484,8484>>, <<8486,8486>>,
     <<8488,8488>>, <<8490,8493>>, <<8495,8500>>, <<8505,8505>>, <<8508,8511>>, <<8517,8521>>, <<8526,8526>>,
     <<8544,8575>>, <<8579,8580>>, <<9398,9449>>, <<11264,11387>>, <<11390,11492>>, <<11499,11502>>, <<11506,11507>>,
     <<11520,11557>>, <<11559,11559>>, <<11565,11565>>, <<42560,42605>>, <<42624,42651>>, <<42786,42863>>, <<42865,42887>>,
     <<42891,42894>>, <<42896,42954>>, <<42960,42961>>, <<42963,42963>>, <<42965,42969>>, <<42997,42998>>, <<43002,43002>>,
     <<43824,43866>>, <<43872,43880>>, <<43888,43967>>, <<64256,64262>>, <<64275,64279>>, <<65313,65338>>, <<65345,65370>>,
     <<66560,66639>>, <<66736,66771>>, <<66776,66811>>, <<66928,66938>>, <<66940,66954>>, <<66956,66962>>, <<66964,66965>>,
     <<66967,66977>>, <<66979,66993>>, <<66995,67001>>, <<67003,67004>>, <<68736,68786>>, <<68800,68850>>, <<71840,71903>>,
     <<93760,93823>>, <<119808,119892>>, <<119894,119964>>, <<119966,119967>>, <<119970,119970>>, <<119973,119974>>, <<119977,119980>>,
     <<119982,119993>>, <<119995,119995>>, <<119997,120003>>, <<120005,120069>>, <<120071,120074>>, <<120077,120084>>, <<120086,120092>>,
     <<120094,120121>>, <<120123,120126>>, <<120128,120132>>, <<120134,120134>>, <<120138,120144>>, <<120146,120485>>, <<120488,120512>>,
     <<120514,120538>>, <<120540,120570>>, <<120572,120596>>, <<120598,120628>>, <<120630,120654>>, <<120656,120686>>, <<120688,120712>>,
     <<120714,120744>>, <<120746,120770>>, <<120772,120779>>, <<122624,122633>>, <<122635,122654>>, <<125184,125251>>, <<127280,127305>>,
     <<127312,127337>>, <<127344,127369>> >>

CaseIgnorableTable ==
  << <<39,39>>, <<46,46>>, <<58,58>>, <<94,94>>, <<96,96>>, <<168,168>>, <<173,173>>,
     <<175,175>>, <<180,180>>, <<183,184>>, <<688,879>>, <<884,885>>, <<890,890>>, <<900,901>>,
     <<903,903>>, <<1155,1161>>, <<1369,1369>>, <<1375,1375>>, <<1425,1469>>, <<1471,1471>>, <<1473,1474>>,
     <<1476,1477>>, <<1479,1479>>, <<1524,1524>>, <<1536,1541>>, <<1552,1562>>, <<1564,1564>>, <<1600,1600>>,
     <<1611,1631>>, <<1648,1648>>, <<1750,1757>>, <<1759,1768>>, <<1770,1773>>, <<1807,1807>>, <<1809,1809>>,
     <<1840,1866>>, <<1958,1968>>, <<2027,2037>>, <<2042,2042>>, <<2045,2045>>, <<2070,2093>>, <<2137,2139>>,
     <<2184,2184>>, <<2192,2193>>, <<2200,2207>>, <<2249,2306>>, <<2362,2362>>, <<2364,2364>>, <<2369,2376>>,
     <<2381,2381>>, <<2385,2391>>, <<2402,2403>>, <<2417,2417>>, <<2433,2433>>, <<2492,2492>>, <<2497,2500>>,
     <<2509,2509>>, <<2530,2531>>, <<2558,2558>>, <<2561,2562>>, <<2620,2620>>, <<2625,2626>>, <<2631,2632>>,
     <<2635,2637>>, <<2641,2641>>, <<2672,2673>>, <<2677,2677>>, <<2689,2690>>, <<2748,2748>>, <<2753,2757>>,
     <<2759,2760>>, <<2765,2765>>, <<2786,2787>>, <<2810,2815>>, <<2817,2817>>, <<2876,2876>>, <<2879,2879>>,
     <<2881,2884>>, <<2893,2893>>, <<2901,2902>>, <<2914,2915>>, <<2946,2946>>, <<3008,3008>>, <<3021,3021>>,
     <<3072,3072>>, <<3076,3076>>, <<3132,3132>>, <<3134,3136>>, <<3142,3144>>, <<3146,3149>>, <<3157,3158>>,
     <<3170,3171>>, <<3201,3201>>, <<3260,3260>>, <<3263,3263>>, <<3270,3270>>, <<3276,3277>>, <<3298,3299>>,
     <<3328,3329>>, <<3387,3388>>, <<3393,3396>>, <<3405,3405>>, <<3426,3427>>, <<3457,3457>>, <<3530,3530>>,
     <<3538,3540>>, <<3542,3542>>, <<3633,3633>>, <<3636,3642>>, <<3654,3662>>, <<3761,3761>>, <<3764,3772>>,
     <<3782,3782>>, <<3784,3789>>, <<3864,3865>>, <<3893,3893>>, <<3895,3895>>, <<3897,3897>>, <<3953,3966>>,
     <<3968,3972>>, <<3974,3975>>, <<3981,3991>>, <<3993,4028>>, <<4038,4038>>, <<4141,4144>>, <<4146,4151>>,
     <<4153,4154>>, <<4157,4158>>, <<4184,4185>>, <<4190,4192>>, <<4209,4212>>, <<4226,4226>>, <<4229,4230>>,
     <<4237,4237>>, <<4253,4253>>, <<4348,4348>>, <<4957,4959>>, <<5906,5908>>, <<5938,5939>>, <<5970,5971>>,
     <<6002,6003>>, <<6068,6069>>, <<6071,6077>>, <<6086,6086>>, <<6089,6099>>, <<6103,6103>>, <<6109,6109>>,
     <<6155,6159>>, <<6211,6211>>, <<6277,6278>>, <<6313,6313>>, <<6432,6434>>, <<6439,6440>>, <<6450,6450>>,
     <<6457,6459>>, <<6679,6680>>, <<6683,6683>>, <<6742,6742>>, <<6744,6750>>, <<6752,6752>>, <<6754,6754>>,
     <<6757,6764>>, <<6771,6780>>, <<6783,6783>>, <<6823,6823>>, <<6832,6862>>, <<6912,6915>>, <<6964,6964>>,
     <<6966,6970>>, <<6972,6972>>, <<6978,6978>>, <<7019,7027>>, <<7040,7041>>, <<7074,7077>>, <<7080,7081>>,
     <<7083,7085>>, <<7142,7142>>, <<7144,7145>>, <<7149,7149>>, <<7151,7153>>, <<7212,7219>>, <<7222,7223>>,
     <<7288,7293>>, <<7376,7378>>, <<7380,7392>>, <<7394,7400>>, <<7405,7405>>, <<7412,7412>>, <<7416,7417>>,
     <<7468,7530>>, <<7544,7544>>, <<7579,7679>>, <<8125,8125>>, <<8127,8129>>, <<8141,8143>>, <<8157,8159>>,
     <<8173,8175>>, <<8189,8190>>, <<8203,8207>>, <<8216,8217>>, <<8228,8228>>, <<8231,8231>>, <<8234,8238>>,
     <<8288,8292>>, <<8294,8303>>, <<8305,8305>>, <<8319,8319>>, <<8336,8348>>, <<8400,8432>>, <<11388,11389>>,
     <<11503,11505>>, <<11631,11631>>, <<11647,11647>>, <<11744,11775>>, <<11823,11823>>, <<12293,12293>>, <<12330,12333>>,
     <<12337,12341>>, <<12347,12347>>, <<12441,12446>>, <<12540,12542>>, <<40981,40981>>, <<42232,42237>>, <<42508,42508>>,
     <<42607,42610>>, <<42612,42621>>, <<42623,42623>>, <<42652,42655>>, <<42736,42737>>, <<42752,42785>>, <<42864,42864>>,
     <<42888,42890>>, <<42994,42996>>, <<43000,43001>>, <<43010,43010>>, <<43014,43014>>, <<43019,43019>>, <<43045,43046>>,
     <<43052,43052>>, <<43204,43205>>, <<43232,43249>>, <<43263,43263>>, <<43302,43309>>, <<43335,43345>>, <<43392,43394>>,
     <<43443,43443>>, <<43446,43449>>, <<43452,43453>>, <<43471,43471>>, <<43493,43494>>, <<43561,43566>>, <<43569,43570>>,
     <<43573,43574>>, <<43587,43587>>, <<43596,43596>>, <<43632,43632>>, <<43644,43644>>, <<43696,43696>>, <<43698,43700>>,
     <<43703,43704>>, <<43710,43711>>, <<43713,43713>>, <<43741,43741>>, <<43756,43757>>, <<43763,43764>>, <<43766,43766>>,
     <<43867,43871>>, <<43881,43883>>, <<44005,44005>>, <<44008,44008>>, <<44013,44013>>, <<64286,64286>>, <<64434,64450>>,
     <<65024,65039>>, <<65043,65043>>, <<65056,65071>>, <<65106,65106>>, <<65109,65109>>, <<65279,65279>>, <<65287,65287>>,
     <<65294,65294>>, <<65306,65306>>, <<65342,65342>>, <<65344,65344>>, <<65392,65392>>, <<65438,65439>>, <<65507,65507>>,
     <<65529,65531>>, <<66045,66045>>, <<66272,66272>>, <<66422,66426>>, <<67456,67461>>, <<67463,67504>>, <<67506,67514>>,
     <<68097,68099>>, <<68101,68102>>, <<68108,68111>>, <<68152,68154>>, <<68159,68159>>, <<68325,68326>>, <<68900,68903>>,
     <<69291,69292>>, <<69446,69456>>, <<69506,69509>>, <<69633,69633>>, <<69688,69702>>, <<69744,69744>>, <<69747,69748>>,
     <<69759,69761>>, <<69811,69814>>, <<69817,69818>>, <<69821,69821>>, <<69826,69826>>, <<69837,69837>>, <<69888,69890>>,
     <<69927,69931>>, <<69933,69940>>, <<70003,70003>>, <<70016,70017>>, <<70070,70078>>, <<70089,70092>>, <<70095,70095>>,
     <<70191,70193>>, <<70196,70196>>, <<70198,70199>>, <<70206,70206>>, <<70367,70367>>, <<70371,70378>>, <<70400,70401>>,
     <<70459,70460>>, <<70464,70464>>, <<70502,70508>>, <<70512,70516>>, <<70712,70719>>, <<70722,70724>>, <<70726,70726>>,
     <<70750,70750>>, <<70835,70840>>, <<70842,70842>>, <<70847,70848>>, <<70850,70851>>, <<71090,71093>>, <<71100,71101>>,
     <<71103,71104>>, <<71132,71133>>, <<71219,71226>>, <<71229,71229>>, <<71231,71232>>, <<71339,71339>>, <<71341,71341>>,
     <<71344,71349>>, <<71351,71351>>, <<71453,71455>>, <<71458,71461>>, <<71463,71467>>, <<71727,71735>>, <<71737,71738>>,
     <<71995,71996>>, <<71998,71998>>, <<72003,72003>>, <<72148,72151>>, <<72154,72155>>, <<72160,72160>>, <<72193,72202>>,
     <<72243,72248>>, <<72251,72254>>, <<72263,72263>>, <<72273,72278>>, <<72281,72283>>, <<72330,72342>>, <<72344,72345>>,
     <<72752,72758>>, <<72760,72765>>, <<72767,72767>>, <<72850,72871>>, <<72874,72880>>, <<72882,72883>>, <<72885,72886>>,
     <<73009,73014>>, <<73018,73018>>, <<73020,73021>>, <<73023,73029>>, <<73031,73031>>, <<73104,73105>>, <<73109,73109>>,
     <<73111,73111>>, <<73459,73460>>, <<78896,78904>>, <<92912,92916>>, <<92976,92982>>, <<92992,92995>>, <<94031,94031>>,
     <<94095,94111>>, <<94176,94177>>, <<94179,94180>>, <<110576,110579>>, <<110581,110587>>, <<110589,110590>>, <<113821,113822>>,
     <<113824,113827>>, <<118528,118573>>, <<118576,118598>>, <<119143,119145>>, <<119155,119170>>, <<119173,119179>>, <<119210,119213>>,
     <<119362,119364>>, <<121344,121398>>, <<121403,121452>>, <<121461,121461>>, <<121476,121476>>, <<121499,121503>>, <<121505,121519>>,
     <<122880,122886>>, <<122888,122904>>, <<122907,122913>>, <<122915,122916>>, <<122918,122922>>, <<123184,123197>>, <<123566,123566>>,
     <<123628,123631>>, <<125136,125142>>, <<125252,125259>>, <<127995,127999>>, <<917505,917505>>, <<917536,917631>>, <<917760,917999>> >>

InRanges(c, T) == \E k \in 1..Len(T) : T[k][1] <= c /\ c <= T[k][2]

\* c plus the delta of the entry of T that holds c, c when none does
lower_in(c, T) ==
  LET K == {k \in 1..Len(T) :
              T[k][1] <= c /\ c <= T[k][2] /\ (c - T[k][1]) % T[k][3] = 0}
  IN IF K = {} THEN c ELSE c + T[CHOOSE k \in K : TRUE][4]

\* the lower case of a code point whose lower case is one code point
lower_char(c) ==
  IF c < 128 THEN (IF c \in 65..90 THEN c + 32 ELSE c)
  ELSE lower_in(c, LowerTable)

\* Final_Sigma: s[i] follows a cased letter and no cased letter follows it,
\* case-ignorable code points passed over on both sides
final_sigma_in(s, i, Cased, CaseIgnorable) ==
  LET before == {j \in 1..(i - 1) : ~InRanges(s[j], CaseIgnorable)}
      after == {j \in (i + 1)..Len(s) : ~InRanges(s[j], CaseIgnorable)}
  IN /\ before # {}
     /\ InRanges(s[CHOOSE j \in before : \A k \in before : k <= j], Cased)
     /\ \/ after = {}
        \/ ~InRanges(s[CHOOSE j \in after : \A k \in after : j <= k], Cased)

final_sigma(s, i) == final_sigma_in(s, i, CasedTable, CaseIgnorableTable)

\* where the lower case of s[i] starts in the result: U+0130 alone has a
\* lower case of two code points
lower_at(s, i) == i + Cardinality({k \in 1..(i - 1) : s[k] = 304})

\* str.lower()
lower(s) ==
  [j \in 1..lower_at(s, Len(s) + 1) - 1 |->
     LET i == CHOOSE k \in 1..Len(s) :
                lower_at(s, k) <= j /\ j < lower_at(s, k + 1)
     IN IF s[i] = 931 THEN (IF final_sigma(s, i) THEN 962 ELSE 963)
        ELSE IF s[i] = 304 THEN (IF j = lower_at(s, i) THEN 105 ELSE 775)
        ELSE lower_char(s[i])]

\* the code points str.isspace() holds for, which str.strip() removes
Whitespace ==
  (9..13) \cup (28..32) \cup {133, 160, 5760} \cup (8192..8202)
    \cup {8232, 8233, 8239, 8287, 12288}

RECURSIVE lstrip(_)
lstrip(s) == IF s # <<>> /\ Head(s) \in Whitespace THEN lstrip(Tail(s)) ELSE s

RECURSIVE rstrip(_)
rstrip(s) ==
  IF s # <<>> /\ s[Len(s)] \in Whitespace
  THEN rstrip(SubSeq(s, 1, Len(s) - 1)) ELSE s

\* str.strip()
strip(s) == rstrip(lstrip(s))

\* Python's < on str: lexicographic by code point
StrLess(a, b) ==
  \E k \in 1..(Len(b)) :
    /\ \A j \in 1..(k - 1) : j <= Len(a) /\ a[j] = b[j]
    /\ (k > Len(a) \/ a[k] < b[k])

\* line[-k] of a Python list
NegIdx(line, k) == line[Len(line) - k + 1]

(***************************************************************************)
(* sorted(): insertion sort of a list, ascending.                          *)
(***************************************************************************)
RECURSIVE insert_sorted(_, _)
insert_sorted(x, s) ==
  IF s = <<>> THEN <<x>>
  ELSE IF StrLess(x, Head(s)) THEN <<x>> \o s
  ELSE <<Head(s)>> \o insert_sorted(x, Tail(s))

RECURSIVE sorted_desc(_)
sorted_desc(s) ==
  IF s = <<>> THEN <<>>
  ELSE LET r == sorted_desc(Tail(s))
           RECURSIVE ins(_, _)
           ins(x, t) == IF t = <<>> THEN <<x>>
                        ELSE IF StrLess(Head(t), x) THEN <<x>> \o t
                        ELSE <<Head(t)>> \o ins(x, Tail(t))
       IN ins(Head(s), r)

RECURSIVE sorted(_)
sorted(s) == IF s = <<>> THEN <<>> ELSE insert_sorted(Head(s), sorted(Tail(s)))

\* list(val) of a set: some enumeration of its elements
RECURSIVE list_of_set(_)
list_of_set(S) ==
  IF S = {} THEN <<>>
  ELSE LET x == CHOOSE y \in S : TRUE IN <<x>> \o list_of_set(S \ {x})

Range(s) == {s[i] : i \in 1..Len(s)}

EmptyFn == [x \in {} |-> 0]

(***************************************************************************)
(* A label_sets value: a Python set before sort_label_set, a list after.   *)
(***************************************************************************)
PySet(S) == [tag |-> "set", set |-> S, list |-> <<>>]
PyList(l) == [tag |-> "list", set |-> {}, list |-> l]

\* list(val)
list_of(val) == IF val.tag = "set" THEN list_of_set(val.set) ELSE val.list

\* label in val
Contains(val, label) ==
  IF val.tag = "set" THEN label \in val.set ELSE label \in Range(val.list)

(***************************************************************************)
(* get_metadata and create_example.                                        *)
(***************************************************************************)
get_metadata(line) ==
  LET claimant == strip(NegIdx(line, 3))
      review_date == strip(NegIdx(line, 4))
      language == strip(line[1])
      site == strip(line[2])
      claim_date == strip(NegIdx(line, 5))
  IN <<108,97,110,103,117,97,103,101,32,58,32>> \o language
     \o <<44,32,115,105,116,101,32,58,32>> \o site
     \o <<44,32,99,108,97,105,109,97,110,116,32,58,32>> \o claimant
     \o <<44,32,99,108,97,105,109,95,100,97,116,101,32,58,32>> \o claim_date
     \o <<44,32,114,101,118,105,101,119,95,100,97,116,101,58,32>> \o review_date

create_example(line, n) ==
  [evidences |-> [i \in 1..n |-> line[2 + i]],
   claim_text |-> NegIdx(line, 2),
   label |-> lower(NegIdx(line, 1)),
   metadata |-> get_metadata(line)]

\* InputExample(example_id=guid, question=claim_text, contexts=evidences, label=label)
InputExample(i, ce, md) ==
  [example_id |-> <<"train", i>>,
   question |-> IF md THEN ce.claim_text \o <<32>> \o ce.metadata
                ELSE ce.claim_text,
   contexts |-> ce.evidences,
   label |-> ce.label]

(***************************************************************************)
(* Input files: what _read_tsv returns, the header row first.  A data row  *)
(* is empty (a blank line) or has the twelve X-Fact columns                *)
(*   language, site, evidence_1..5, claimDate, reviewDate, claimant,       *)
(*   claim, label.                                                         *)
(***************************************************************************)
Sources == {"s1", "s2"}

RawLabels == {Str_True, Str_false}

Labels == {lower(l) : l \in RawLabels}

MkRow(raw_label) ==
  << <<101,110>>, <<32,115,110,111,112,101,115,32>>,
     <<101,49>>, <<101,50>>, <<101,51>>, <<101,52>>, <<101,53>>,
     <<50,48,50,48>>, <<50,48,50,49>>, <<98,111,98,32>>,
     <<99>>, raw_label >>

HeaderRow == MkRow(Str_label)

DataRows == {<<>>} \cup {MkRow(l) : l \in RawLabels}

SeqsUpTo(S, n) == UNION {[1..k -> S] : k \in 0..n}

Files == {<<>>} \cup {<<HeaderRow>> \o rows : rows \in SeqsUpTo(DataRows, MaxRows)}

\* the data rows create_example is applied to: Python index i >= 1, non-empty
DataIdx(lines) == {k \in 2..Len(lines) : Len(lines[k]) # 0}

\* the distinct lower-cased labels of a file
LabelsIn(lines) == {lower(NegIdx(lines[k], 1)) : k \in DataIdx(lines)}

(***************************************************************************)
(* XFactEvidenceProcessor.get_train_examples                               *)
(***************************************************************************)
\* self.label_count[source][label] += 1, created at 0 when missing
tally(count, label) ==
  IF label \in DOMAIN count THEN [count EXCEPT ![label] = @ + 1]
  ELSE count @@ (label :> 1)

\* self.label_sets[source].add(label) raises AttributeError on a list
add_fails_never(val) == FALSE

add_fails(val) == val.tag = "list"

\* self.label_sets[source].add(label) on a set
add_label(val, label) == PySet(val.set \cup {label})

\* the non-build check: label not in self.label_sets[source]
label_missing_never(val, label) == FALSE

label_missing(val, label) == ~Contains(val, label)

RECURSIVE train_loop(_, _, _, _, _, _)
train_loop(acc, lines, k, create_label_set, n, md) ==
  IF k > Len(lines) \/ acc.err # "none" THEN acc
  ELSE IF k = 1 \/ Len(lines[k]) = 0
  THEN train_loop(acc, lines, k + 1, create_label_set, n, md)
  ELSE LET ce == create_example(lines[k], n) IN
    IF create_label_set /\ add_fails(acc.val)
    THEN [acc EXCEPT !.err = "AttributeError"]
    ELSE IF ~create_label_set /\ label_missing(acc.val, ce.label)
    THEN [acc EXCEPT !.err = "ValueError"]
    ELSE train_loop(
           [val |-> IF create_label_set THEN add_label(acc.val, ce.label)
                    ELSE acc.val,
            count |-> tally(acc.count, ce.label),
            examples |-> Append(acc.examples, InputExample(k - 1, ce, md)),
            err |-> "none"],
           lines, k + 1, create_label_set, n, md)

get_train_examples(ls, lc, source, lines, create_label_set, n, md) ==
  LET ls1 == IF source \in DOMAIN ls THEN ls ELSE ls @@ (source :> PySet({}))
      lc1 == IF source \in DOMAIN ls THEN lc ELSE lc @@ (source :> EmptyFn)
      acc == train_loop([val |-> ls1[source], count |-> lc1[source],
                         examples |-> <<>>, err |-> "none"],
                        lines, 1, create_label_set, n, md)
  IN [label_sets |-> [ls1 EXCEPT ![source] = acc.val],
      label_count |-> [lc1 EXCEPT ![source] = acc.count],
      examples |-> acc.examples,
      err |-> acc.err]

(***************************************************************************)
(* XFactEvidenceProcessor.sort_label_set and get_labels                    *)
(***************************************************************************)
sort_label_set(ls) == [key \in DOMAIN ls |-> PyList(sorted(list_of(ls[key])))]

(***************************************************************************)
(* XFactEvidenceProcessor.get_dev_examples / get_test_examples             *)
(***************************************************************************)
\* examples_skipped += 1
count_skip_none(skipped) == skipped

count_skip(skipped) == skipped + 1

in_vocab_always(ls, source, label) == TRUE

\* label in self.label_sets[source]
in_vocab(ls, source, label) == Contains(ls[source], label)

RECURSIVE dev_loop(_, _, _, _, _, _, _)
dev_loop(acc, ls, source, lines, k, n, md) ==
  IF k > Len(lines) \/ acc.err # "none" THEN acc
  ELSE IF k = 1 \/ Len(lines[k]) = 0
  THEN dev_loop(acc, ls, source, lines, k + 1, n, md)
  ELSE LET ce == create_example(lines[k], n) IN
    IF source \notin DOMAIN ls THEN [acc EXCEPT !.err = "KeyError"]
    ELSE IF ~in_vocab(ls, source, ce.label)
    THEN dev_loop([acc EXCEPT !.examples_skipped = count_skip(@)],
                  ls, source, lines, k + 1, n, md)
    ELSE dev_loop([acc EXCEPT !.examples =
                      Append(@, InputExample(k - 1, ce, md))],
                  ls, source, lines, k + 1, n, md)

get_dev_examples(ls, source, lines, n, md) ==
  dev_loop([examples |-> <<>>, examples_skipped |-> 0, err |-> "none"],
           ls, source, lines, 1, n, md)

RECURSIVE test_loop(_, _, _, _, _, _, _)
test_loop(acc, ls, source, lines, k, n, md) ==
  IF k > Len(lines) \/ acc.err # "none" THEN acc
  ELSE IF k = 1 \/ Len(lines[k]) = 0
  THEN test_loop(acc, ls, source, lines, k + 1, n, md)
  ELSE LET ce == create_example(lines[k], n) IN
    IF source \notin DOMAIN ls THEN [acc EXCEPT !.err = "KeyError"]
    ELSE IF ~in_vocab(ls, source, ce.label)
    THEN test_loop([acc EXCEPT !.examples_skipped = count_skip(@)],
                   ls, source, lines, k + 1, n, md)
    ELSE test_loop([acc EXCEPT !.examples =
                       Append(@, InputExample(k - 1, ce, md))],
                   ls, source, lines, k + 1, n, md)

get_test_examples(ls, source, lines, n, md) ==
  test_loop([examples |-> <<>>, examples_skipped |-> 0, err |-> "none"],
            ls, source, lines, 1, n, md)

(***************************************************************************)
(* XFactEvidenceProcessor.__init__                                         *)
(***************************************************************************)
RECURSIVE ctor_scan(_, _, _, _, _)
ctor_scan(st, srcs, train_files, n, md) ==
  IF srcs = <<>> THEN st
  ELSE LET r == get_train_examples(st.label_sets, st.label_count, Head(srcs),
                                   train_files[Head(srcs)], TRUE, n, md)
       IN ctor_scan([label_sets |-> r.label_sets, label_count |-> r.label_count],
                    Tail(srcs), train_files, n, md)

\* has_data_dir: data_dir is not None
init_processor(srcs, n, md, has_data_dir, train_files) ==
  LET st0 == [label_sets |-> EmptyFn, label_count |-> EmptyFn]
      st1 == IF has_data_dir THEN ctor_scan(st0, srcs, train_files, n, md)
             ELSE st0
  IN [label_sets |-> sort_label_set(st1.label_sets),
      label_count |-> st1.label_count]

(***************************************************************************)
(* The processor as a state machine.  ret is the outcome of the call in    *)
(* progress, the file it read included; the caller takes it (Return)       *)
(* before the next call.  seen records, for every source scanned by the    *)
(* constructor, the labels of the training file it read.                   *)
(***************************************************************************)
NoRet ==
  [op |-> "none", source |-> "", build |-> FALSE, lines |-> <<>>,
   examples |-> <<>>, skipped |-> 0, err |-> "none", labels |-> EmptyFn]

SourceLists == {<<"s1">>, <<"s1", "s2">>}

Perms(m) == {p \in [1..m -> 1..m] : \A i, j \in 1..m : p[i] = p[j] => i = j}

\* random.shuffle(examples) under the permutation p
shuffle(examples, p) == [i \in 1..Len(examples) |-> examples[p[i]]]

\* the count of label l of source s in the tally lc, 0 when absent
count_of(lc, s, l) ==
  IF s \in DOMAIN lc /\ l \in DOMAIN lc[s] THEN lc[s][l] ELSE 0

\* no count of the tally to has grown past MaxCount
WithinCount(from, to) ==
  \A s \in DOMAIN to : \A l \in DOMAIN to[s] :
    to[s][l] <= MaxCount \/ to[s][l] = count_of(from, s, l)

\* The state after __init__(sources, num_evidences, use_metadata, data_dir)
\* with the training files found in data_dir.  num_evidences and
\* use_metadata only shape the examples; the encoders' specification below
\* varies them.
InitProc ==
  \E srcs \in SourceLists, n \in {MaxEv}, md \in BOOLEAN,
     has_data_dir \in BOOLEAN, train_files \in [Sources -> Files] :
    LET p == init_processor(srcs, n, md, has_data_dir, train_files) IN
    /\ sources = srcs
    /\ num_evidences = n
    /\ use_metadata = md
    /\ label_sets = p.label_sets
    /\ label_count = p.label_count
    /\ seen = IF has_data_dir
              THEN [s \in Range(srcs) |-> LabelsIn(train_files[s])]
              ELSE EmptyFn
    /\ ret = NoRet

\* The counts of label_count grow without bound over repeated scans; the
\* state space is kept finite by leaving out a scan that would take one of
\* them past MaxCount.
GetTrainExamples ==
  /\ ret.op = "none"
  /\ \E source \in Sources, lines \in Files, create_label_set \in BOOLEAN :
       LET r == get_train_examples(label_sets, label_count, source, lines,
                                   create_label_set, num_evidences,
                                   use_metadata)
       IN /\ WithinCount(label_count, r.label_count)
          /\ label_sets' = r.label_sets
          /\ label_count' = r.label_count
          /\ \E p \in Perms(Len(r.examples)) :
                  ret' = [op |-> "train", source |-> source,
                          build |-> create_label_set, lines |-> lines,
                          examples |-> IF r.err = "none"
                                       THEN shuffle(r.examples, p) ELSE <<>>,
                          skipped |-> 0, err |-> r.err, labels |-> EmptyFn]
  /\ UNCHANGED <<sources, num_evidences, use_metadata, seen>>

GetDevExamples ==
  /\ ret.op = "none"
  /\ \E source \in Sources, lines \in Files :
       LET r == get_dev_examples(label_sets, source, lines, num_evidences,
                                 use_metadata)
       IN ret' = [op |-> "dev", source |-> source, build |-> FALSE,
                  lines |-> lines,
                  examples |-> IF r.err = "none" THEN r.examples ELSE <<>>,
                  skipped |-> r.examples_skipped, err |-> r.err,
                  labels |-> EmptyFn]
  /\ UNCHANGED <<sources, num_evidences, use_metadata, label_sets,
                 label_count, seen>>

GetTestExamples ==
  /\ ret.op = "none"
  /\ \E source \in Sources, lines \in Files :
       LET r == get_test_examples(label_sets, source, lines, num_evidences,
                                  use_metadata)
       IN ret' = [op |-> "test", source |-> source, build |-> FALSE,
                  lines |-> lines,
                  examples |-> IF r.err = "none" THEN r.examples ELSE <<>>,
                  skipped |-> r.examples_skipped, err |-> r.err,
                  labels |-> EmptyFn]
  /\ UNCHANGED <<sources, num_evidences, use_metadata, label_sets,
                 label_count, seen>>

GetLabels ==
  /\ ret.op = "none"
  /\ label_sets' = sort_label_set(label_sets)
  /\ ret' = [NoRet EXCEPT !.op = "get_labels", !.labels = label_sets']
  /\ UNCHANGED <<sources, num_evidences, use_metadata, label_count, seen>>

\* the caller takes the returned value (or catches the exception)
Return ==
  /\ ret.op # "none"
  /\ ret' = NoRet
  /\ UNCHANGED <<sources, num_evidences, use_metadata, label_sets,
                 label_count, seen>>

EncIdle == enc_in = <<>> /\ enc_out = <<>>
NoCsv == [header |-> <<>>, rows |-> <<>>]

EdaIdle ==
  /\ pc = "off"
  /\ test_all_tsv = <<>>
  /\ tsv = <<>>
  /\ df = <<>>
  /\ bi = EmptyFn
  /\ dev_csv = NoCsv
  /\ json_files = EmptyFn

Init == InitProc /\ EncIdle /\ EdaIdle

Next ==
  \/ GetTrainExamples /\ UNCHANGED <<encVars, edaVars>>
  \/ GetDevExamples /\ UNCHANGED <<encVars, edaVars>>
  \/ GetTestExamples /\ UNCHANGED <<encVars, edaVars>>
  \/ GetLabels /\ UNCHANGED <<encVars, edaVars>>
  \/ Return /\ UNCHANGED <<encVars, edaVars>>

Spec == Init /\ [][Next]_vars

(***************************************************************************)
(* The tokenizer handed to the encoders.  It is a parameter of the         *)
(* encoders, called with padding="max_length" and truncation=True; the     *)
(* stand-in below encodes one code point per token between [CLS] and [SEP] *)
(* marks, cuts to max_length and pads with 0.  Which optional keys its     *)
(* output carries is up to the tokenizer: keys is that choice for one call.*)
(* NoText stands for a text_b of None.                                     *)
(***************************************************************************)
NoText == <<0>>

CLS == <<101>>

SEP == <<102>>

Pad(ids, max_length, filler) ==
  [i \in 1..max_length |-> IF i <= Len(ids) THEN ids[i] ELSE filler]

tokenizer(text_a, text_b, max_length, keys) ==
  LET first == CLS \o text_a \o SEP
      second == IF text_b = NoText THEN <<>> ELSE text_b \o SEP
      ids == first \o second
  IN [keys |-> keys,
      input_ids |-> Pad(ids, max_length, 0),
      attention_mask |-> Pad([i \in 1..Len(ids) |-> 1], max_length, 0),
      token_type_ids |-> Pad([i \in 1..Len(ids) |->
                                 IF i <= Len(first) THEN 0 ELSE 1],
                             max_length, 0)]

KeySets == SUBSET {"attention_mask", "token_type_ids"}

\* what the tokenizer returns for one example: the keys of its first call
\* and the keys of its later calls
TokBehaviours ==
  {[first |-> K, rest |-> K] : K \in KeySets}
    \cup {[first |-> {"attention_mask", "token_type_ids"}, rest |-> {}],
          [first |-> {}, rest |-> {"attention_mask", "token_type_ids"}]}

keys_of_call(tb, idx) == IF idx = 1 THEN tb.first ELSE tb.rest

(***************************************************************************)
(* The feature encoders.                                                   *)
(***************************************************************************)
\* label_map = {label: i for i, label in enumerate(label_list)}
label_map_from_one(label_list) ==
  [l \in Range(label_list) |->
     CHOOSE i \in 1..Len(label_list) :
       /\ label_list[i] = l
       /\ \A j \in (i + 1)..Len(label_list) : label_list[j] # l]

label_map(label_list) ==
  [l \in Range(label_list) |->
     CHOOSE i \in 0..(Len(label_list) - 1) :
       /\ label_list[i + 1] = l
       /\ \A j \in (i + 1)..(Len(label_list) - 1) : label_list[j + 1] # l]

\* choices_inputs of xfact_evidence_convert_examples_to_features
evidence_choices(example, max_length, tb) ==
  [k \in 1..Len(example.contexts) |->
     tokenizer(example.question, example.contexts[k], max_length,
               keys_of_call(tb, k))]

claim_evidence_choices_no_claim(example, max_length, tb) ==
  [k \in 1..Len(example.contexts) |->
     tokenizer(example.contexts[k], NoText, max_length,
               keys_of_call(tb, k + 1))]

\* choices_inputs of xfact_claim_evidence_convert_examples_to_features
claim_evidence_choices(example, max_length, tb) ==
  <<tokenizer(example.question, NoText, max_length, keys_of_call(tb, 1))>>
    \o [k \in 1..Len(example.contexts) |->
          tokenizer(example.contexts[k], NoText, max_length,
                    keys_of_call(tb, k + 1))]

\* key in choices_inputs[0]
has_key(choices_inputs, key) == key \in choices_inputs[1].keys

Absent == [present |-> FALSE, value |-> <<>>]

\* the part of the loop body after choices_inputs is built: one
\* InputFeatures, or the exception raised
make_features(example, choices_inputs, lmap) ==
  IF example.label \notin DOMAIN lmap
  THEN [err |-> "KeyError: label", feature |-> <<>>]
  ELSE IF choices_inputs = <<>>
  THEN [err |-> "IndexError", feature |-> <<>>]
  ELSE IF /\ has_key(choices_inputs, "attention_mask")
          /\ \E k \in 1..Len(choices_inputs) :
               "attention_mask" \notin choices_inputs[k].keys
  THEN [err |-> "KeyError: attention_mask", feature |-> <<>>]
  ELSE IF /\ has_key(choices_inputs, "token_type_ids")
          /\ \E k \in 1..Len(choices_inputs) :
               "token_type_ids" \notin choices_inputs[k].keys
  THEN [err |-> "KeyError: token_type_ids", feature |-> <<>>]
  ELSE
    [err |-> "none",
     feature |->
       [example_id |-> example.example_id,
        input_ids |-> [k \in 1..Len(choices_inputs) |->
                         choices_inputs[k].input_ids],
        attention_mask |->
          IF has_key(choices_inputs, "attention_mask")
          THEN [present |-> TRUE,
                value |-> [k \in 1..Len(choices_inputs) |->
                             choices_inputs[k].attention_mask]]
          ELSE Absent,
        token_type_ids |->
          IF has_key(choices_inputs, "token_type_ids")
          THEN [present |-> TRUE,
                value |-> [k \in 1..Len(choices_inputs) |->
                             choices_inputs[k].token_type_ids]]
          ELSE Absent,
        label |-> lmap[example.label]]]

RECURSIVE evidence_loop(_, _, _, _, _, _)
evidence_loop(features, examples, j, lmap, max_length, toks) ==
  IF j > Len(examples) THEN [features |-> features, err |-> "none"]
  ELSE LET r == make_features(examples[j],
                              evidence_choices(examples[j], max_length,
                                               toks[j]),
                              lmap)
       IN IF r.err # "none" THEN [features |-> <<>>, err |-> r.err]
          ELSE evidence_loop(Append(features, r.feature), examples, j + 1,
                             lmap, max_length, toks)

xfact_evidence_convert_examples_to_features(examples, label_list, max_length, toks) ==
  evidence_loop(<<>>, examples, 1, label_map(label_list), max_length, toks)

RECURSIVE claim_evidence_loop(_, _, _, _, _, _)
claim_evidence_loop(features, examples, j, lmap, max_length, toks) ==
  IF j > Len(examples) THEN [features |-> features, err |-> "none"]
  ELSE LET r == make_features(examples[j],
                              claim_evidence_choices(examples[j], max_length,
                                                     toks[j]),
                              lmap)
       IN IF r.err # "none" THEN [features |-> <<>>, err |-> r.err]
          ELSE claim_evidence_loop(Append(features, r.feature), examples,
                                   j + 1, lmap, max_length, toks)

xfact_claim_evidence_convert_examples_to_features(examples, label_list, max_length, toks) ==
  claim_evidence_loop(<<>>, examples, 1, label_map(label_list), max_length,
                      toks)

(***************************************************************************)
(* The encoders as a state machine: enc_in is the arguments of a call      *)
(* (examples built by the processor's create_example, a label list the     *)
(* processor froze, max_length), enc_out the outcome with the tokenizer's  *)
(* behaviour for each example.                                             *)
(***************************************************************************)
NoEncOut == [fn |-> "none", features |-> <<>>, err |-> "none", toks |-> <<>>]

LabelLists == {sorted(list_of_set(S)) : S \in SUBSET Labels}

ExampleLists(n, md) ==
  {[j \in 1..Len(raws) |-> InputExample(j, create_example(MkRow(raws[j]), n), md)] :
     raws \in SeqsUpTo(RawLabels, MaxEx)}

MaxLengths == {4, 12}

InitEnc ==
  /\ \E n \in 0..MaxEv, md \in BOOLEAN :
       /\ num_evidences = n
       /\ use_metadata = md
       /\ \E exs \in ExampleLists(n, md), ll \in LabelLists,
             ml \in MaxLengths :
            enc_in = [examples |-> exs, label_list |-> ll, max_length |-> ml]
  /\ enc_out = NoEncOut
  /\ sources = <<>>
  /\ label_sets = EmptyFn
  /\ label_count = EmptyFn
  /\ seen = EmptyFn
  /\ ret = NoRet
  /\ pc = "off"
  /\ test_all_tsv = <<>>
  /\ tsv = <<>>
  /\ df = <<>>
  /\ bi = EmptyFn
  /\ dev_csv = NoCsv
  /\ json_files = EmptyFn

EvidenceConvert ==
  /\ enc_out.fn = "none"
  /\ \E toks \in [1..Len(enc_in.examples) -> TokBehaviours] :
       LET r == xfact_evidence_convert_examples_to_features(
                  enc_in.examples, enc_in.label_list, enc_in.max_length, toks)
       IN enc_out' = [fn |-> "evidence", features |-> r.features,
                      err |-> r.err, toks |-> toks]
  /\ UNCHANGED enc_in

ClaimEvidenceConvert ==
  /\ enc_out.fn = "none"
  /\ \E toks \in [1..Len(enc_in.examples) -> TokBehaviours] :
       LET r == xfact_claim_evidence_convert_examples_to_features(
                  enc_in.examples, enc_in.label_list, enc_in.max_length, toks)
       IN enc_out' = [fn |-> "claim_evidence", features |-> r.features,
                      err |-> r.err, toks |-> toks]
  /\ UNCHANGED enc_in

NextEnc ==
  \/ EvidenceConvert /\ UNCHANGED <<procVars, edaVars>>
  \/ ClaimEvidenceConvert /\ UNCHANGED <<procVars, edaVars>>

SpecEnc == InitEnc /\ [][NextEnc]_vars

(***************************************************************************)
(* The year-filter script eda.py.  test_all_tsv is the file test.all.tsv,  *)
(* one record per row with its claimDate, claim and label fields as text;  *)
(* tsv is the frame pd.read_csv makes of it, with the type it infers for   *)
(* each column; the script runs top to bottom, pc is its position.         *)
(***************************************************************************)
Str_placeholder == <<112,108,97,99,101,104,111,108,100,101,114>>
Str_test == <<116,101,115,116>>
Str_2020 == <<50,48,50,48>>
Str_2018 == <<50,48,49,56>>
Str_2016 == <<50,48,49,54>>
Str_False == <<70,97,108,115,101>>
Str_mostly_true == <<109,111,115,116,108,121,32,116,114,117,101>>

ClaimDates ==
  {<<50,48,50,48,48,49,49,53>>, <<50,48,49,56,45,48,51,45,48,49>>,
   Str_2016, <<50,48,50,49>>, <<50,48,50>>, <<43,50,48,50,48>>,
   <<50,48,50,48,46,53>>}

TsvLabels ==
  {Str_true, Str_false, Str_True, <<116,82,85,69>>, Str_mostly_true, <<>>}

TsvRows ==
  [claimDate : ClaimDates, claim : {<<99>>}, label : TsvLabels]

Tables == SeqsUpTo(TsvRows, MaxDfRows)

\* The values of a frame's cells: text, an integer, a float, a boolean, a
\* missing value.  A float is held in decimal: its sign, its significant
\* digits (none for zero) and the place of the decimal point counted from
\* the first of them.
StrCell(s) == [tag |-> "str", s |-> s, n |-> 0, b |-> FALSE]
IntCell(n) == [tag |-> "int", s |-> <<>>, n |-> n, b |-> FALSE]
FloatCell(neg, digits, decpt) == [tag |-> "float", s |-> digits, n |-> decpt, b |-> neg]
InfCell(neg) == [tag |-> "inf", s |-> <<>>, n |-> 0, b |-> neg]
BoolCell(b) == [tag |-> "bool", s |-> <<>>, n |-> 0, b |-> b]
NaN == [tag |-> "nan", s |-> <<>>, n |-> 0, b |-> FALSE]

\* the fields read_csv reads as missing (its default na_values)
NaWords ==
  { <<>>, <<35,78,47,65>>, <<35,78,47,65,32,78,47,65>>,
    <<35,78,65>>, <<45,49,46,35,73,78,68>>, <<45,49,46,35,81,78,65,78>>,
    <<45,78,97,78>>, <<45,110,97,110>>, <<49,46,35,73,78,68>>,
    <<49,46,35,81,78,65,78>>, <<60,78,65,62>>, <<78,47,65>>,
    <<78,65>>, <<78,85,76,76>>, <<78,97,78>>,
    <<78,111,110,101>>, <<110,47,97>>, <<110,97,110>>,
    <<110,117,108,108>> }


\* tolower() of the C locale, as strcasecmp applies it
ascii_lower(s) == [i \in 1..Len(s) |-> IF s[i] \in 65..90 THEN s[i] + 32 ELSE s[i]]

\* the parser's to_boolean: "true" and "false" in any mix of cases
IsTrueWord(s) == ascii_lower(s) = Str_true
IsFalseWord(s) == ascii_lower(s) = Str_false
IsBoolWord(s) == IsTrueWord(s) \/ IsFalseWord(s)

IsDigits(s) == s # <<>> /\ \A i \in 1..Len(s) : s[i] \in 48..57

\* the blanks the parser's number conversions pass over
AsciiSpace == {9, 10, 11, 12, 13, 32}

RECURSIVE skip_leading(_)
skip_leading(s) ==
  IF s # <<>> /\ Head(s) \in AsciiSpace THEN skip_leading(Tail(s)) ELSE s

RECURSIVE skip_trailing(_)
skip_trailing(s) ==
  IF s # <<>> /\ s[Len(s)] \in AsciiSpace
  THEN skip_trailing(SubSeq(s, 1, Len(s) - 1)) ELSE s

\* the field without the blanks around it, and without its sign
int_body(s) == skip_trailing(skip_leading(s))
int_digits(s) ==
  LET body == int_body(s)
  IN IF body # <<>> /\ body[1] \in {43, 45} THEN Tail(body) ELSE body

\* the parser's integer conversion accepts the field: blanks, an optional
\* sign, digits, blanks
IsInt(s) == IsDigits(int_digits(s))

\* int() of a decimal digit string
RECURSIVE int_of_str(_)
int_of_str(s) ==
  IF s = <<>> THEN 0
  ELSE 10 * int_of_str(SubSeq(s, 1, Len(s) - 1)) + (s[Len(s)] - 48)

\* the integer read from a field IsInt accepts
int_of_field(s) ==
  IF int_body(s)[1] = 45 THEN 0 - int_of_str(int_digits(s))
  ELSE int_of_str(int_digits(s))

\* str() of an integer
RECURSIVE str_of_int(_)
str_of_int(n) ==
  IF n < 0 THEN <<45>> \o str_of_int(0 - n)
  ELSE IF n < 10 THEN <<48 + n>>
  ELSE str_of_int(n \div 10) \o <<48 + (n % 10)>>

\* the first place of s that holds one of the code points of C, Len(s) + 1
\* when none does
first_of(s, C) ==
  IF \E i \in 1..Len(s) : s[i] \in C
  THEN CHOOSE i \in 1..Len(s) : s[i] \in C /\ \A j \in 1..(i - 1) : s[j] \notin C
  ELSE Len(s) + 1

\* The parts of a field for the parser's float conversion: after the blanks
\* around it and its sign, the mantissa up to the first e or E, split at
\* its first point, and the exponent after it.
float_parts(s) ==
  LET unsigned == int_digits(s)
      e == first_of(unsigned, {69, 101})
      mant == SubSeq(unsigned, 1, e - 1)
      expo == SubSeq(unsigned, e + 1, Len(unsigned))
      p == first_of(mant, {46})
  IN [neg |-> int_body(s) # <<>> /\ int_body(s)[1] = 45,
      int |-> SubSeq(mant, 1, p - 1),
      frac |-> SubSeq(mant, p + 1, Len(mant)),
      has_exp |-> e <= Len(unsigned),
      exp_neg |-> expo # <<>> /\ expo[1] = 45,
      exp |-> IF expo # <<>> /\ expo[1] \in {43, 45} THEN Tail(expo) ELSE expo]

AllDigits(s) == \A i \in 1..Len(s) : s[i] \in 48..57

\* the words the parser reads as infinities, in any mix of cases
Str_inf == <<105,110,102>>
Str_infinity == <<105,110,102,105,110,105,116,121>>
IsInfWord(s) ==
  LET w == ascii_lower(s)
      u == IF w # <<>> /\ w[1] \in {43, 45} THEN Tail(w) ELSE w
  IN u = Str_inf \/ u = Str_infinity

\* the parser's float conversion accepts the field: blanks, an optional
\* sign, digits with at most one point among them, an optional exponent
\* (e or E, an optional sign, digits), blanks; or a word for infinity
IsFloat(s) ==
  LET f == float_parts(s)
  IN \/ /\ AllDigits(f.int) /\ AllDigits(f.frac)
        /\ f.int \o f.frac # <<>>
        /\ f.has_exp => IsDigits(f.exp)
     \/ IsInfWord(s)

RECURSIVE strip_zeros_left(_)
strip_zeros_left(s) ==
  IF s # <<>> /\ Head(s) = 48 THEN strip_zeros_left(Tail(s)) ELSE s

RECURSIVE strip_zeros_right(_)
strip_zeros_right(s) ==
  IF s # <<>> /\ s[Len(s)] = 48
  THEN strip_zeros_right(SubSeq(s, 1, Len(s) - 1)) ELSE s

\* the float of a sign and a digit string with the point after place
\* point of it
float_of_digits(neg, digits, point) ==
  LET left == strip_zeros_left(digits)
  IN FloatCell(neg, strip_zeros_right(left),
               IF left = <<>> THEN 0 ELSE point - (Len(digits) - Len(left)))

\* the float read from a field IsFloat accepts
float_of_field(s) ==
  LET f == float_parts(s)
      e == IF f.has_exp
           THEN (IF f.exp_neg THEN 0 - int_of_str(f.exp) ELSE int_of_str(f.exp))
           ELSE 0
  IN IF IsInfWord(s) THEN InfCell(s[1] = 45)
     ELSE float_of_digits(f.neg, f.int \o f.frac, Len(f.int) + e)

\* the float an integer is cast to
float_of_int(n) ==
  LET digits == str_of_int(IF n < 0 THEN 0 - n ELSE n)
  IN float_of_digits(n < 0, digits, Len(digits))

\* The type read_csv infers for a column from its fields, missing fields
\* set aside.  It tries int64, float64 and bool in this order and falls
\* back to object; an int64 column with a missing field is cast to
\* float64, a bool column with a missing field to object.  Numbers are
\* taken to be within what the conversions read exactly: integers below
\* 2^31, floats of at most 15 significant digits and a decimal exponent
\* within 22.
column_type(fields) ==
  LET present == {k \in 1..Len(fields) : fields[k] \notin NaWords}
      missing == present # 1..Len(fields)
  IN IF \A k \in present : IsInt(fields[k])
     THEN (IF missing THEN "float64" ELSE "int64")
     ELSE IF \A k \in present : IsFloat(fields[k]) THEN "float64"
     ELSE IF \A k \in present : IsBoolWord(fields[k])
     THEN (IF missing THEN "object" ELSE "bool")
     ELSE "object"

\* the cell read_csv makes of a field in a column of fields
read_cell(fields, k) ==
  LET type == column_type(fields)
      ints == \A j \in 1..Len(fields) :
                fields[j] \in NaWords \/ IsInt(fields[j])
      bools == \A j \in 1..Len(fields) :
                 fields[j] \in NaWords \/ IsBoolWord(fields[j])
  IN IF fields[k] \in NaWords THEN NaN
     ELSE IF type = "int64" THEN IntCell(int_of_field(fields[k]))
     ELSE IF type = "float64" /\ ints
     THEN float_of_int(int_of_field(fields[k]))
     ELSE IF type = "float64" THEN float_of_field(fields[k])
     ELSE IF type = "bool" \/ bools THEN BoolCell(IsTrueWord(fields[k]))
     ELSE StrCell(fields[k])

\* pd.read_csv(...): one frame row per row of the file, each column with
\* the type inferred for it
read_csv(file) ==
  LET dates == [k \in 1..Len(file) |-> file[k].claimDate]
      claims == [k \in 1..Len(file) |-> file[k].claim]
      labels == [k \in 1..Len(file) |-> file[k].label]
  IN [k \in 1..Len(file) |->
        [claimDate |-> read_cell(dates, k),
         claim |-> read_cell(claims, k),
         label |-> read_cell(labels, k)]]

zeros(n) == [i \in 1..n |-> 48]

\* repr() of a float: plain notation while the decimal point lies within
\* 16 places after and 4 places before the first digit, else an exponent
float_repr(neg, digits, decpt) ==
  LET n == Len(digits)
      e == decpt - 1
      ee == str_of_int(IF e < 0 THEN 0 - e ELSE e)
      body ==
        IF n = 0 THEN <<48, 46, 48>>
        ELSE IF decpt > 16 \/ decpt < -3
        THEN <<digits[1]>>
               \o (IF n > 1 THEN <<46>> \o Tail(digits) ELSE <<>>)
               \o <<101, IF e < 0 THEN 45 ELSE 43>>
               \o (IF Len(ee) < 2 THEN <<48>> ELSE <<>>) \o ee
        ELSE IF decpt <= 0 THEN <<48, 46>> \o zeros(0 - decpt) \o digits
        ELSE IF decpt >= n THEN digits \o zeros(decpt - n) \o <<46, 48>>
        ELSE SubSeq(digits, 1, decpt) \o <<46>> \o SubSeq(digits, decpt + 1, n)
  IN (IF neg THEN <<45>> ELSE <<>>) \o body

\* str() of a cell: astype(str)
astype_str(cell) ==
  IF cell.tag = "int" THEN str_of_int(cell.n)
  ELSE IF cell.tag = "float" THEN float_repr(cell.b, cell.s, cell.n)
  ELSE IF cell.tag = "inf" THEN (IF cell.b THEN <<45>> ELSE <<>>) \o Str_inf
  ELSE IF cell.tag = "nan" THEN <<110, 97, 110>>
  ELSE IF cell.tag = "bool" THEN (IF cell.b THEN Str_True ELSE Str_False)
  ELSE cell.s

\* the text to_csv writes for a cell: a missing value is written empty
csv_field(cell) == IF cell.tag = "nan" THEN <<>> ELSE astype_str(cell)

\* df.claimDate.astype(str).str[:4]
year_prefix(cell) ==
  LET s == astype_str(cell)
  IN SubSeq(s, 1, IF Len(s) < 4 THEN Len(s) ELSE 4)

\* (df['label'] == 'false') | (df['label'] == 'true'): a cell that is not
\* text equals neither string
keep_label(cell) ==
  cell.tag = "str" /\ (cell.s = Str_false \/ cell.s = Str_true)

\* df['label'].replace({'false':0, 'true':1})
encode_label(label) ==
  IF label = Str_false THEN 0 ELSE IF label = Str_true THEN 1 ELSE label

\* lines 9-30: the frame after the column selection, the year prefix, the
\* label filter, the added columns, the label encoding and the rename
prepare(frame) ==
  LET cut == [k \in 1..Len(frame) |->
                [claimDate |-> year_prefix(frame[k].claimDate),
                 claim |-> frame[k].claim,
                 label |-> frame[k].label]]
      kept == SelectSeq(cut, LAMBDA r : keep_label(r.label))
  IN [k \in 1..Len(kept) |->
        [claimDate |-> kept[k].claimDate,
         text |-> kept[k].claim,
         label |-> encode_label(kept[k].label.s),
         exp_split |-> Str_test,
         annotation_id |-> Str_placeholder,
         label_id |-> kept[k].label.s]]

\* df.loc[(df['claimDate'] == year)][[...]]
select_year(frame, year) == SelectSeq(frame, LAMBDA r : r.claimDate = year)

Columns == <<"annotation_id", "exp_split", "text", "label", "label_id">>

\* frame.to_csv('dev.csv', index = False)
to_csv(frame) ==
  [header |-> Columns,
   rows |-> [k \in 1..Len(frame) |->
               <<frame[k].annotation_id, frame[k].exp_split,
                 csv_field(frame[k].text), str_of_int(frame[k].label),
                 frame[k].label_id>>]]

\* csv.DictReader: one dict per row, keyed by the header
dict_row(header, row) ==
  [c \in Range(header) |->
     row[CHOOSE i \in 1..Len(header) : header[i] = c]]

\* csv_to_json: the array written to the json file
csv_to_json(csv) ==
  [k \in 1..Len(csv.rows) |->
     LET row == dict_row(csv.header, csv.rows[k])
     IN [c \in DOMAIN row |->
           IF c = "label" THEN int_of_str(row[c]) ELSE row[c]]]

InitEda ==
  /\ pc = "start"
  /\ test_all_tsv \in Tables
  /\ tsv = <<>>
  /\ df = <<>>
  /\ bi = EmptyFn
  /\ dev_csv = NoCsv
  /\ json_files = EmptyFn
  /\ EncIdle
  /\ sources = <<>>
  /\ num_evidences = 0
  /\ use_metadata = FALSE
  /\ label_sets = EmptyFn
  /\ label_count = EmptyFn
  /\ seen = EmptyFn
  /\ ret = NoRet

ReadCsv ==
  /\ pc = "start"
  /\ tsv' = read_csv(test_all_tsv)
  /\ pc' = "read"
  /\ UNCHANGED <<test_all_tsv, df, bi, dev_csv, json_files>>

Prepare ==
  /\ pc = "read"
  /\ df' = prepare(tsv)
  /\ pc' = "prepared"
  /\ UNCHANGED <<test_all_tsv, tsv, bi, dev_csv, json_files>>

SelectYears ==
  /\ pc = "prepared"
  /\ bi' = [y \in {"Bi2020", "Bi2018", "Bi2016"} |->
              select_year(df, IF y = "Bi2020" THEN Str_2020
                              ELSE IF y = "Bi2018" THEN Str_2018
                              ELSE Str_2016)]
  /\ pc' = "selected"
  /\ UNCHANGED <<test_all_tsv, tsv, df, dev_csv, json_files>>

ToCsv(frame, from, to) ==
  /\ pc = from
  /\ dev_csv' = to_csv(bi[frame])
  /\ pc' = to
  /\ UNCHANGED <<test_all_tsv, tsv, df, bi, json_files>>

CsvToJson(jsonFilePath, from, to) ==
  /\ pc = from
  /\ json_files' =
       [f \in DOMAIN json_files \cup {jsonFilePath} |->
          IF f = jsonFilePath THEN csv_to_json(dev_csv) ELSE json_files[f]]
  /\ pc' = to
  /\ UNCHANGED <<test_all_tsv, tsv, df, bi, dev_csv>>

NextEda ==
  \/ ReadCsv /\ UNCHANGED <<procVars, encVars>>
  \/ Prepare /\ UNCHANGED <<procVars, encVars>>
  \/ SelectYears /\ UNCHANGED <<procVars, encVars>>
  \/ ToCsv("Bi2020", "selected", "csv2020") /\ UNCHANGED <<procVars, encVars>>
  \/ CsvToJson("Bi2020_test.json", "csv2020", "json2020")
       /\ UNCHANGED <<procVars, encVars>>
  \/ ToCsv("Bi2018", "json2020", "csv2018") /\ UNCHANGED <<procVars, encVars>>
  \/ CsvToJson("Bi2018_test.json", "csv2018", "json2018")
       /\ UNCHANGED <<procVars, encVars>>
  \/ ToCsv("Bi2016", "json2018", "csv2016") /\ UNCHANGED <<procVars, encVars>>
  \/ CsvToJson("Bi2016_test.json", "csv2016", "done")
       /\ UNCHANGED <<procVars, encVars>>

SpecEda == InitEda /\ [][NextEda]_vars

(***************************************************************************)
(* Properties of the processor.                                            *)
(***************************************************************************)
\* the labels of a label_sets value
Vocab(val) == IF val.tag = "set" THEN val.set ELSE Range(val.list)

\* Python index i of the rows of a file, in file order
RowIds(lines) == [k \in 1..(Len(lines) - 1) |-> k]

RowLabel(lines, i) == lower(NegIdx(lines[i + 1], 1))

IsDataRow(lines, i) == Len(lines[i + 1]) # 0

\* the rows a filtered scan has to keep, in file order
KeptIds(lines, V) ==
  SelectSeq(RowIds(lines),
            LAMBDA i : IsDataRow(lines, i) /\ RowLabel(lines, i) \in V)

ExampleIds(examples) == [j \in 1..Len(examples) |-> examples[j].example_id[2]]

StrictlyAscending(l) == \A i \in 1..(Len(l) - 1) : StrLess(l[i], l[i + 1])

\* C1: a dev or test scan of a source that has a vocabulary returns, in
\* file order, exactly the rows whose lower-cased label is in that
\* vocabulary (the labels of the training file, for a source the
\* constructor scanned), and never an example with another label.
C1_FilteredScan ==
  (ret.op \in {"dev", "test"} /\ ret.source \in DOMAIN label_sets) =>
    LET V == IF ret.source \in DOMAIN seen THEN seen[ret.source]
             ELSE Vocab(label_sets[ret.source])
    IN /\ ret.err = "none"
       /\ ExampleIds(ret.examples) = KeptIds(ret.lines, V)
       /\ \A j \in 1..Len(ret.examples) :
            /\ ret.examples[j].label \in V
            /\ ret.examples[j].label
                 = RowLabel(ret.lines, ret.examples[j].example_id[2])

C1_Witness ==
  /\ ret.op = "dev"
  /\ ret.source \in DOMAIN seen
  /\ Len(ret.examples) = 1
  /\ ret.skipped = 1
  /\ ret.examples[1].example_id[2] = 2

\* C2: get_labels() returns, for every source, a list and never a set; for
\* every source the constructor scanned the list is strictly ascending and
\* holds exactly the distinct lower-cased labels of its training file.
C2_SortedLabels ==
  ret.op = "get_labels" =>
    /\ \A s \in DOMAIN ret.labels : ret.labels[s].tag = "list"
    /\ \A s \in DOMAIN seen :
         /\ s \in DOMAIN ret.labels
         /\ StrictlyAscending(ret.labels[s].list)
         /\ Range(ret.labels[s].list) = seen[s]
         /\ Len(ret.labels[s].list) = Cardinality(seen[s])

C2_Witness ==
  /\ ret.op = "get_labels"
  /\ \E s \in DOMAIN seen : ret.labels[s].list = <<Str_false, Str_true>>

\* C5: no operation changes the label list of a source whose vocabulary is
\* frozen (a list), whichever source it is called for.
C5_FrozenImmutable ==
  [][\A s \in DOMAIN label_sets :
       label_sets[s].tag = "list" =>
         s \in DOMAIN label_sets' /\ label_sets'[s] = label_sets[s]]_vars

C5_Witness ==
  /\ ret.op = "train"
  /\ ~ret.build
  /\ ret.err = "ValueError"
  /\ ret.source \in DOMAIN seen
  /\ label_sets[ret.source].tag = "list"
  /\ label_sets[ret.source].list # <<>>

\* C6: a build-mode training scan never fails: every non-empty data row
\* yields an example and its label is in the vocabulary afterwards.
C6_BuildNeverFails ==
  (ret.op = "train" /\ ret.build) =>
    /\ ret.err = "none"
    /\ Len(ret.examples) = Cardinality(DataIdx(ret.lines))
    /\ LabelsIn(ret.lines) \subseteq Vocab(label_sets[ret.source])

\* C7: a non-build training scan of a frozen source raises (ValueError) iff
\* some non-empty data row has a lower-cased label outside the frozen list;
\* otherwise it returns one example per non-empty data row; in both cases
\* the vocabulary is unchanged.
C7_NonBuildScan ==
  [][(/\ ret'.op = "train"
      /\ ret.op = "none"
      /\ ~ret'.build
      /\ ret'.source \in DOMAIN label_sets
      /\ label_sets[ret'.source].tag = "list") =>
       LET V == Range(label_sets[ret'.source].list)
           rows == DataIdx(ret'.lines)
       IN /\ (ret'.err # "none") <=>
               (\E k \in rows : RowLabel(ret'.lines, k - 1) \notin V)
          /\ ret'.err \in {"none", "ValueError"}
          /\ ret'.err = "none" =>
               /\ Len(ret'.examples) = Cardinality(rows)
               /\ Range(ExampleIds(ret'.examples)) = {k - 1 : k \in rows}
          /\ label_sets' = label_sets]_vars

C7_Witness ==
  /\ ret.op = "train"
  /\ ~ret.build
  /\ ret.err = "none"
  /\ Len(ret.examples) >= 1
  /\ ret.source \in DOMAIN seen

\* C8 as stated: kept + skipped equals the number of rows after the header.
C8_AllRowsCounted ==
  (ret.op \in {"dev", "test"} /\ ret.err = "none" /\ Len(ret.lines) >= 1) =>
    Len(ret.examples) + ret.skipped = Len(ret.lines) - 1

\* C8 amended: in a dev or test scan of a source that has a vocabulary,
\* kept + skipped equals the number of non-empty data rows (blank rows are
\* passed over without being counted).
C8_NonEmptyRowsCounted ==
  (ret.op \in {"dev", "test"} /\ ret.source \in DOMAIN label_sets) =>
    /\ ret.err = "none"
    /\ Len(ret.examples) + ret.skipped = Cardinality(DataIdx(ret.lines))

C8_Witness ==
  /\ ret.op = "test"
  /\ ret.err = "none"
  /\ \E k \in 2..Len(ret.lines) : Len(ret.lines[k]) = 0
  /\ ret.skipped = 1

(***************************************************************************)
(* Properties of the feature encoders.                                     *)
(***************************************************************************)
Returned == enc_out.fn # "none" /\ enc_out.err = "none"

\* every example's label is in the label list, and the tokenizer returns
\* the same keys for all the calls of one example
LabelsListed ==
  \A j \in 1..Len(enc_in.examples) :
    enc_in.examples[j].label \in Range(enc_in.label_list)

TokenizerUniform ==
  \A j \in 1..Len(enc_out.toks) : enc_out.toks[j].first = enc_out.toks[j].rest

\* the input-id sequences the strategies have to produce for one example
PairedIds(example, max_length) ==
  [k \in 1..Len(example.contexts) |->
     tokenizer(example.question, example.contexts[k], max_length, {}).input_ids]

AloneIds(example, max_length) ==
  [k \in 1..(Len(example.contexts) + 1) |->
     IF k = 1
     THEN tokenizer(example.question, NoText, max_length, {}).input_ids
     ELSE tokenizer(example.contexts[k - 1], NoText, max_length, {}).input_ids]

ShapeOk ==
  /\ Len(enc_out.features) = Len(enc_in.examples)
  /\ \A j \in 1..Len(enc_in.examples) :
       LET f == enc_out.features[j]
           e == enc_in.examples[j]
       IN /\ f.example_id = e.example_id
          /\ Len(e.contexts) = num_evidences
          /\ enc_out.fn = "evidence" =>
               /\ Len(f.input_ids) = num_evidences
               /\ f.input_ids = PairedIds(e, enc_in.max_length)
          /\ enc_out.fn = "claim_evidence" =>
               /\ Len(f.input_ids) = num_evidences + 1
               /\ f.input_ids = AloneIds(e, enc_in.max_length)

\* C3 as stated: for every evidence count n, given listed labels and a
\* uniform tokenizer, each encoder emits one record per example, with n
\* (evidence pairing) or n + 1 (claim plus evidence) input-id sequences.
C3_ChoiceCounts ==
  (enc_out.fn # "none" /\ LabelsListed /\ TokenizerUniform) =>
    (enc_out.err = "none" /\ ShapeOk)

\* C3 amended: the claim-plus-evidence encoder does so for every n >= 0,
\* the evidence-pairing encoder for every n >= 1; with n = 0 and at least
\* one example the evidence-pairing encoder raises IndexError.
C3_ChoiceCountsPositive ==
  /\ (/\ enc_out.fn # "none" /\ LabelsListed /\ TokenizerUniform
      /\ (enc_out.fn = "claim_evidence" \/ num_evidences >= 1))
       => (enc_out.err = "none" /\ ShapeOk)
  /\ Returned => ShapeOk
  /\ (/\ enc_out.fn = "evidence" /\ LabelsListed /\ num_evidences = 0
      /\ enc_in.examples # <<>>)
       => enc_out.err = "IndexError"

C3_Witness ==
  /\ Returned
  /\ enc_out.fn = "claim_evidence"
  /\ num_evidences = 2
  /\ Len(enc_out.features) = 2
  /\ Len(enc_out.features[2].input_ids) = 3
  /\ enc_out.features[1].input_ids[2] # enc_out.features[1].input_ids[3]

\* C4: the label index of a record is the position of the example's label
\* in the label list (position i maps to i, counted from 0), distinct
\* labels get distinct indices covering 0..len-1, and an example whose
\* label is not in the list makes the call raise without any record.
C4_LabelIndex ==
  /\ \A i \in 1..Len(enc_in.label_list) :
       label_map(enc_in.label_list)[enc_in.label_list[i]] = i - 1
  /\ Returned =>
       \A j \in 1..Len(enc_out.features) :
         /\ enc_out.features[j].label \in 0..(Len(enc_in.label_list) - 1)
         /\ enc_in.label_list[enc_out.features[j].label + 1]
              = enc_in.examples[j].label
  /\ (enc_out.fn # "none" /\ ~LabelsListed) =>
       /\ enc_out.err # "none"
       /\ enc_out.features = <<>>
  /\ (/\ enc_out.fn # "none"
      /\ enc_in.examples # <<>>
      /\ enc_in.examples[1].label \notin Range(enc_in.label_list))
       => enc_out.err = "KeyError: label"

C4_Witness ==
  /\ Returned
  /\ enc_out.fn = "evidence"
  /\ Len(enc_in.label_list) = 2
  /\ Len(enc_out.features) = 2
  /\ enc_out.features[1].label = 1
  /\ enc_out.features[2].label = 0

\* C10: within one returned batch either every record carries attention
\* masks (respectively segment ids) or none does, whatever the tokenizer
\* returns for later examples.
C10_BatchWide ==
  Returned =>
    \A i, j \in 1..Len(enc_out.features) :
      /\ enc_out.features[i].attention_mask.present
           = enc_out.features[j].attention_mask.present
      /\ enc_out.features[i].token_type_ids.present
           = enc_out.features[j].token_type_ids.present

(***************************************************************************)
(* Properties of the year-filter script.                                   *)
(***************************************************************************)
Prefix4(s) == [i \in 1..(IF Len(s) < 4 THEN Len(s) ELSE 4) |-> s[i]]

\* the records the output file of a year has to hold, in table order
ExpectedJson(table, year) ==
  LET rows == SelectSeq(table,
                LAMBDA r : /\ r.label \in {Str_true, Str_false}
                           /\ Prefix4(r.claimDate) = year)
  IN [k \in 1..Len(rows) |->
        [annotation_id |-> Str_placeholder,
         exp_split |-> Str_test,
         text |-> rows[k].claim,
         label |-> IF rows[k].label = Str_true THEN 1 ELSE 0,
         label_id |-> rows[k].label]]

\* C9: when the script has run, the output file of each year Y in
\* {2020, 2018, 2016} holds exactly the rows of test.all.tsv with label
\* "true" or "false" whose claimDate starts with Y, as records with label 1
\* for "true" and 0 for "false"; other rows are in no file.
C9_YearFiles ==
  pc = "done" =>
    /\ DOMAIN json_files
         = {"Bi2020_test.json", "Bi2018_test.json", "Bi2016_test.json"}
    /\ json_files["Bi2020_test.json"] = ExpectedJson(test_all_tsv, Str_2020)
    /\ json_files["Bi2018_test.json"] = ExpectedJson(test_all_tsv, Str_2018)
    /\ json_files["Bi2016_test.json"] = ExpectedJson(test_all_tsv, Str_2016)

====
